---- MODULE Spec2Model ----
(***************************************************************************)
(* osm2streets: the "classic" tag-to-lane inference engine                 *)
(* (osm2streets/src/lanes/classic.rs), modelled as a state machine whose   *)
(* state is a caller's tag dictionary, a MapConfig and the outcome of one  *)
(* call.  Widths are integers in decimetres.                               *)
(***************************************************************************)
EXTENDS Integers, Sequences, FiniteSets, TLC

VARIABLES
    tags,       \* the caller's tag dictionary: a function from the present keys to values
    cfg,        \* the MapConfig: [driving_side, inferred_sidewalks, osm2lanes]
    pc,         \* "idle", then "returned" | "panicked" | "experimental" | "inferred"
    lanes,      \* the Vec<LaneSpec> returned by get_lane_specs_ltr
    fwd_side,   \* the forward side handed to assemble_ltr (centerline outwards)
    back_side,  \* the backward side handed to assemble_ltr (centerline outwards)
    kind,       \* which return of get_lane_specs_ltr was taken
    streets,    \* a run of apply_transformations: [pc, input, todo, calls, timer]
    search      \* a call of simple_path: [pc, roads, from, to, lane_types, result]

vars == <<tags, cfg, pc, lanes, fwd_side, back_side, kind, streets, search>>

----------------------------------------------------------------------------
(* Bounds of the model. *)

\* lanes, lanes:forward and lanes:backward range over the numerals 0..MaxLanes
MaxLanes == 2
\* bus:lanes* / psv:lanes* values have 1..MaxBusParts parts separated by '|'
MaxBusParts == 2

----------------------------------------------------------------------------
(* abstutil::Tags, a string-to-string map, as used by classic.rs. *)

EmptyTags == [k \in {} |-> ""]

contains_key(t, k) == k \in DOMAIN t

\* Option<&String>: the empty set is None, a singleton is Some
get(t, k) == IF k \in DOMAIN t THEN {t[k]} ELSE {}

is(t, k, v) == k \in DOMAIN t /\ t[k] = v

is_any(t, k, vs) == k \in DOMAIN t /\ t[k] \in vs

insert(t, k, v) == [x \in (DOMAIN t) \cup {k} |-> IF x = k THEN v ELSE t[x]]

\* Tags::clone: an independent dictionary with the same entries
clone(t) == [k \in DOMAIN t |-> t[k]]

\* the keys named through crate::osm
HIGHWAY == "highway"
SIDEWALK == "sidewalk"
PARKING_RIGHT == "parking:lane:right"
PARKING_LEFT == "parking:lane:left"
PARKING_BOTH == "parking:lane:both"

----------------------------------------------------------------------------
(* Parsing of numeric tag values. *)

\* the strings the model uses for lane counts: the numerals, and a value that
\* str::parse::<usize> rejects
LaneCountNumerals == {ToString(n) : n \in 0..MaxLanes}
LaneCountValues == LaneCountNumerals \cup {"many"}

\* num.parse::<usize>().ok(): Some(n) for a decimal numeral, None otherwise
ParseUsizeTable ==
    [s \in LaneCountValues |-> {n \in 0..MaxLanes : ToString(n) = s}]
parse_usize(s) == IF s \in DOMAIN ParseUsizeTable THEN ParseUsizeTable[s] ELSE {}

\* the strings the model uses for sidewalk:*:width
WidthValues == {"0", "-1", "2", "wide"}

\* num.parse::<f64>().ok(): Some(x) for a signed decimal numeral (in metres)
ParseF64Table ==
    [s \in WidthValues |-> {x \in -9..9 : ToString(x) = s}]
parse_f64(s) == IF s \in DOMAIN ParseF64Table THEN ParseF64Table[s] ELSE {}

\* Distance::meters(x), in decimetres
Distance_meters(x) == 10 * x

\* checked usize subtraction: None when the difference would be negative
usize_sub(a, b) == IF a >= b THEN {a - b} ELSE {}

----------------------------------------------------------------------------
(* Lane types and lane records. *)

BufferTypes == {"FlexPosts", "Curb", "Planters", "JerseyBarrier", "Stripes"}

Buffer(b) == "Buffer(" \o b \o ")"

BufferLaneTypes == {Buffer(b) : b \in BufferTypes}

\* LaneSpec::typical_lane_widths(lt, tags)[0].0, in decimetres: the first
\* entry of the width oracle, which is positive for every lane type
typical_lane_widths(lt, t) ==
    CASE lt \in {"Driving", "Bus", "SharedLeftTurn", "Construction", "SharedUse"} -> 30
      [] lt = "Parking" -> 26
      [] lt \in {"Biking", "LightRail", "Footway"} -> 20
      [] lt = "Sidewalk" -> 15
      [] lt = "Shoulder" -> 5
      [] OTHER -> 15

fwd(lt, t) == [lt |-> lt, dir |-> "Fwd", width |-> typical_lane_widths(lt, t)]

back(lt, t) == [lt |-> lt, dir |-> "Back", width |-> typical_lane_widths(lt, t)]

----------------------------------------------------------------------------
(* Vec helpers. *)

\* Vec::reverse
Reverse(s) == [i \in 1..Len(s) |-> s[Len(s) + 1 - i]]

\* `let x = v; F(x)`: v is computed once and F is applied to its value
let(v, F(_)) == CHOOSE r \in {F(x) : x \in {v}} : TRUE

\* Vec::insert(idx, x), idx counted from 0
vec_insert(s, idx, x) == SubSeq(s, 1, idx) \o <<x>> \o SubSeq(s, idx + 1, Len(s))

\* iter::repeat_with(|| x).take(n).collect()
repeat_take(x, n) == [i \in 1..n |-> x]

\* iter().position(|x| x.lt == lt): Some(0-based index of the first match)
position(s, lt) ==
    LET hits == {i \in 1..Len(s) : s[i].lt = lt}
    IN IF hits = {} THEN {}
       ELSE {(CHOOSE i \in hits : \A j \in hits : i <= j) - 1}

\* LaneSpec::assemble_ltr: both sides are ordered from the centerline
\* outwards; the side that lies on the left is reversed and the other side
\* follows it
assemble_ltr(fs, bs, driving_side) ==
    IF driving_side = "Right" THEN Reverse(bs) \o fs
    ELSE Reverse(fs) \o bs

----------------------------------------------------------------------------
(* infer_sidewalk_tags *)

\* the oneway=yes branch with the driving side left out: always "right"
oneway_sidewalk_ignoring_side(t, c) ==
    LET t1 == insert(t, SIDEWALK, "right")
    IN IF /\ is_any(t1, HIGHWAY, {"residential", "living_street"})
          /\ ~is(t1, "dual_carriageway", "yes")
       THEN insert(t1, SIDEWALK, "both")
       ELSE t1

\* the oneway=yes branch with the residential override left out
oneway_sidewalk_without_override(t, c) ==
    IF c.driving_side = "Right"
    THEN insert(t, SIDEWALK, "right")
    ELSE insert(t, SIDEWALK, "left")

\* the oneway=yes branch: the driving side's sidewalk, then the override
oneway_sidewalk(t, c) ==
    LET t1 == IF c.driving_side = "Right"
              THEN insert(t, SIDEWALK, "right")
              ELSE insert(t, SIDEWALK, "left")
    IN IF /\ is_any(t1, HIGHWAY, {"residential", "living_street"})
          /\ ~is(t1, "dual_carriageway", "yes")
       THEN insert(t1, SIDEWALK, "both")
       ELSE t1

infer_sidewalk_tags(t, c) ==
    IF contains_key(t, SIDEWALK) \/ ~c.inferred_sidewalks THEN t
    ELSE IF contains_key(t, "sidewalk:left") \/ contains_key(t, "sidewalk:right") THEN
        LET right == ~is(t, "sidewalk:right", "no")
            left == ~is(t, "sidewalk:left", "no")
            value == CASE right /\ left -> "both"
                       [] right /\ ~left -> "right"
                       [] ~right /\ left -> "left"
                       [] ~right /\ ~left -> "none"
        IN insert(t, SIDEWALK, value)
    ELSE IF \/ is_any(t, HIGHWAY, {"motorway", "motorway_link"})
            \/ is_any(t, "junction", {"intersection", "roundabout"})
            \/ is(t, "foot", "no")
            \/ is(t, HIGHWAY, "service")
            \/ is_any(t, HIGHWAY, {"cycleway", "pedestrian", "track"})
    THEN insert(t, SIDEWALK, "none")
    ELSE IF is(t, "oneway", "yes") THEN oneway_sidewalk(t, c)
    ELSE insert(t, SIDEWALK, "both")

----------------------------------------------------------------------------
(* bus:lanes / psv:lanes values and str::split('|'). *)

RECURSIVE Join(_)
Join(parts) ==
    IF Len(parts) = 1 THEN parts[1]
    ELSE parts[1] \o "|" \o Join(Tail(parts))

\* n parts, all "yes" but the k-th, which is "designated"
OneDesignated(n, k) == [i \in 1..n |-> IF i = k THEN "designated" ELSE "yes"]

BusSpecParts ==
    {<<"">>} \cup {OneDesignated(n, k) : n \in 1..MaxBusParts, k \in 1..MaxBusParts}

BusSpecValues == {Join(p) : p \in BusSpecParts}

\* spec.split('|').collect(): the '|'-free parts whose join by '|' is spec
SplitTable == [s \in BusSpecValues |-> CHOOSE p \in BusSpecParts : Join(p) = s]
split(s) == IF s \in DOMAIN SplitTable THEN SplitTable[s] ELSE <<s>>

----------------------------------------------------------------------------
(* get_lane_specs_ltr: the normal road, phase by phase.  The two sides are  *)
(* carried in a record [fwd_side, back_side, ok]; ok = FALSE once the code   *)
(* has panicked.                                                             *)

Sides(fs, bs) == [fwd_side |-> fs, back_side |-> bs, ok |-> TRUE]

Panicked == [fwd_side |-> <<>>, back_side |-> <<>>, ok |-> FALSE]

last(s) == s[Len(s)]

oneway(t) ==
    is_any(t, "oneway", {"yes", "reversible"}) \/ is(t, "junction", "roundabout")

\* tags.get(k).and_then(|num| num.parse::<usize>().ok())
lanes_tag(t, k) == UNION {parse_usize(num) : num \in get(t, k)}

num_driving_fwd(t) ==
    LET lf == lanes_tag(t, "lanes:forward")
        l == lanes_tag(t, "lanes")
    IN IF lf # {} THEN CHOOSE n \in lf : TRUE
       ELSE IF l # {} THEN
           LET n == CHOOSE n \in l : TRUE
           IN IF oneway(t) THEN n
              ELSE IF n % 2 = 0 THEN n \div 2
              ELSE (n \div 2) + 1
       ELSE 1

\* Some(count), or None when `n - num_driving_fwd` overflows: with overflow
\* checks the subtraction panics, without them the count wraps to 2^64 - k and
\* collecting that many lanes fails to allocate
num_driving_back(t) ==
    LET lb == lanes_tag(t, "lanes:backward")
        l == lanes_tag(t, "lanes")
    IN IF lb # {} THEN lb
       ELSE IF l # {} THEN
           LET n == CHOOSE n \in l : TRUE
               base == usize_sub(n, num_driving_fwd(t))
           IN IF oneway(t) THEN base
              ELSE {IF b >= 1 THEN b ELSE 1 : b \in base}
       ELSE IF oneway(t) THEN {0}
       ELSE {1}

\* the model's motor_vehicle:conditional values, and x.starts_with("no")
ConditionalValues == {"no @ (06:00-19:00)", "delivery @ (06:00-19:00)"}
starts_with_no(x) == x \in {"no", "no @ (06:00-19:00)"}

driving_lane(t) ==
    IF is(t, "access", "no")
       /\ (is(t, "bus", "yes") \/ is_any(t, "psv", {"yes", "designated"}))
    THEN "Bus"
    ELSE IF (\E x \in get(t, "motor_vehicle:conditional") : starts_with_no(x))
            /\ is(t, "bus", "yes")
    THEN "Bus"
    ELSE IF is(t, "access", "no") \/ is(t, "highway", "construction")
    THEN "Construction"
    ELSE "Driving"

\* the driving lanes of both sides and the shared left turn lane
initial_sides(t) ==
    LET nb == num_driving_back(t)
    IN IF nb = {} THEN Panicked
       ELSE LET fs == repeat_take(fwd(driving_lane(t), t), num_driving_fwd(t))
                bs == repeat_take(back(driving_lane(t), t), CHOOSE n \in nb : TRUE)
            IN IF is(t, "lanes:both_ways", "1") \/ is(t, "centre_turn_lane", "yes")
               THEN Sides(vec_insert(fs, 0, fwd("SharedLeftTurn", t)), bs)
               ELSE Sides(fs, bs)

fwd_bus_spec(t) ==
    IF contains_key(t, "bus:lanes:forward") THEN t["bus:lanes:forward"]
    ELSE IF contains_key(t, "psv:lanes:forward") THEN t["psv:lanes:forward"]
    ELSE IF oneway(t) THEN
        IF contains_key(t, "bus:lanes") THEN t["bus:lanes"]
        ELSE IF contains_key(t, "psv:lanes") THEN t["psv:lanes"]
        ELSE ""
    ELSE ""

\* for (idx, part) in parts: if part == "designated" { side[idx + offset].lt = Bus }
designate(side, parts, offset) ==
    [i \in 1..Len(side) |->
        IF (i - offset) \in 1..Len(parts) /\ parts[i - offset] = "designated"
        THEN [side[i] EXCEPT !.lt = "Bus"]
        ELSE side[i]]

\* fwd_side[0] panics on an empty forward side
bus_lanes_forward(st, t) ==
    LET spec == fwd_bus_spec(t)
    IN IF spec = "" THEN st
       ELSE IF st.fwd_side = <<>> THEN Panicked
       ELSE LET parts == split(spec)
                offset == IF st.fwd_side[1].lt = "SharedLeftTurn" THEN 1 ELSE 0
            IN IF Len(parts) = Len(st.fwd_side) - offset
               THEN [st EXCEPT !.fwd_side = designate(@, parts, offset)]
               ELSE st

bus_lanes_backward(st, t) ==
    LET spec == IF contains_key(t, "bus:lanes:backward") THEN get(t, "bus:lanes:backward")
                ELSE get(t, "psv:lanes:backward")
    IN IF spec = {} THEN st
       ELSE LET parts == split(CHOOSE s \in spec : TRUE)
            IN IF Len(parts) = Len(st.back_side)
               THEN [st EXCEPT !.back_side = designate(@, parts, 0)]
               ELSE st

----------------------------------------------------------------------------
(* Bike lanes, buffers, parking, sidewalks, widths and shoulders. *)

push(side, x) == Append(side, x)

cycleway_right(st, t, c) ==
    IF is_any(t, "cycleway:right", {"lane", "track"}) THEN
        LET two_way == is(t, "cycleway:right:oneway", "no") \/ is(t, "oneway:bicycle", "no")
        IN IF c.driving_side = "Right" THEN
               LET s1 == IF two_way THEN push(st.fwd_side, back("Biking", t))
                         ELSE st.fwd_side
               IN [st EXCEPT !.fwd_side = push(s1, fwd("Biking", t))]
           ELSE
               LET s1 == IF two_way THEN push(st.back_side, fwd("Biking", t))
                         ELSE st.back_side
               IN [st EXCEPT !.back_side = push(s1, back("Biking", t))]
    ELSE st

cycleway_opposite_lane(st, t, c) ==
    IF is(t, "cycleway:left", "opposite_lane") \/ is(t, "cycleway", "opposite_lane") THEN
        IF c.driving_side = "Right"
        THEN [st EXCEPT !.back_side = push(@, back("Biking", t))]
        ELSE [st EXCEPT !.fwd_side = push(@, fwd("Biking", t))]
    ELSE st

cycleway_left(st, t, c) ==
    IF is_any(t, "cycleway:left", {"lane", "opposite_track", "track"}) THEN
        LET two_way == is(t, "cycleway:left:oneway", "no") \/ is(t, "oneway:bicycle", "no")
        IN IF c.driving_side = "Right" THEN
               IF two_way THEN
                   [st EXCEPT !.back_side =
                       push(push(@, fwd("Biking", t)), back("Biking", t))]
               ELSE IF oneway(t) THEN
                   [st EXCEPT !.fwd_side = vec_insert(@, 0, fwd("Biking", t))]
               ELSE [st EXCEPT !.back_side = push(@, back("Biking", t))]
           ELSE
               LET s1 == IF two_way THEN push(st.fwd_side, back("Biking", t))
                         ELSE st.fwd_side
               IN [st EXCEPT !.fwd_side = push(s1, fwd("Biking", t))]
    ELSE st

cycleways(st, t, c) ==
    IF is_any(t, "cycleway", {"lane", "track"}) THEN
        [st EXCEPT !.fwd_side = push(@, fwd("Biking", t)),
                   !.back_side = IF @ # <<>> THEN push(@, back("Biking", t)) ELSE @]
    ELSE IF is_any(t, "cycleway:both", {"lane", "track"}) THEN
        [st EXCEPT !.fwd_side = push(@, fwd("Biking", t)),
                   !.back_side = push(@, back("Biking", t))]
    ELSE cycleway_left(cycleway_opposite_lane(cycleway_right(st, t, c), t, c), t, c)

\* Option<BufferType>
osm_separation_type(x) ==
    CASE x \in {"bollard", "vertical_panel"} -> {"FlexPosts"}
      [] x \in {"kerb", "separation_kerb"} -> {"Curb"}
      [] x \in {"grass_verge", "planter", "tree_row"} -> {"Planters"}
      [] x \in {"guard_rail", "jersey_barrier", "railing"} -> {"JerseyBarrier"}
      [] x = "parking_lane" -> {}
      [] x \in {"barred_area", "dashed_line", "solid_line"} -> {"Stripes"}
      [] OTHER -> {}

\* tags.get(k).and_then(osm_separation_type)
separation(t, k) == UNION {osm_separation_type(x) : x \in get(t, k)}

\* the buffer put at the front of the side instead of next to the Biking lane
insert_buffer_at_front(side, lane, shift) ==
    IF position(side, "Biking") = {} THEN side ELSE vec_insert(side, 0, lane)

\* insert a buffer `shift` places after the index of the first Biking lane
insert_buffer(side, lane, shift) ==
    LET idx == position(side, "Biking")
    IN IF idx = {} THEN side
       ELSE vec_insert(side, (CHOOSE i \in idx : TRUE) + shift, lane)

separation_right_left(st, t) ==
    LET buffer == separation(t, "cycleway:right:separation:left")
    IN IF buffer = {} THEN st
       ELSE [st EXCEPT !.fwd_side =
                insert_buffer(@, fwd(Buffer(CHOOSE b \in buffer : TRUE), t), 0)]

separation_left_left(st, t) ==
    LET buffer == separation(t, "cycleway:left:separation:left")
    IN IF buffer = {} THEN st
       ELSE [st EXCEPT !.back_side =
                insert_buffer(@, back(Buffer(CHOOSE b \in buffer : TRUE), t), 0)]

separation_left_right(st, t) ==
    LET buffer == separation(t, "cycleway:left:separation:right")
    IN IF buffer = {} THEN st
       ELSE [st EXCEPT !.fwd_side =
                insert_buffer(@, fwd(Buffer(CHOOSE b \in buffer : TRUE), t), 1)]

parking(st, t) ==
    IF driving_lane(t) = "Driving" THEN
        LET has_parking == {"parallel", "diagonal", "perpendicular"}
            parking_lane_fwd == is_any(t, PARKING_RIGHT, has_parking)
                                \/ is_any(t, PARKING_BOTH, has_parking)
            parking_lane_back == is_any(t, PARKING_LEFT, has_parking)
                                 \/ is_any(t, PARKING_BOTH, has_parking)
        IN [st EXCEPT
              !.fwd_side = IF parking_lane_fwd THEN push(@, fwd("Parking", t)) ELSE @,
              !.back_side = IF parking_lane_back THEN push(@, back("Parking", t)) ELSE @]
    ELSE st

sidewalks(st, t, c) ==
    IF is(t, SIDEWALK, "both") THEN
        [st EXCEPT !.fwd_side = push(@, fwd("Sidewalk", t)),
                   !.back_side = push(@, back("Sidewalk", t))]
    ELSE IF is(t, SIDEWALK, "separate") /\ c.inferred_sidewalks THEN
        [st EXCEPT !.fwd_side = push(@, fwd("Sidewalk", t)),
                   !.back_side = IF @ # <<>> THEN push(@, back("Sidewalk", t)) ELSE @]
    ELSE IF is(t, SIDEWALK, "right") THEN
        IF c.driving_side = "Right"
        THEN [st EXCEPT !.fwd_side = push(@, fwd("Sidewalk", t))]
        ELSE [st EXCEPT !.back_side = push(@, back("Sidewalk", t))]
    ELSE IF is(t, SIDEWALK, "left") THEN
        IF c.driving_side = "Right"
        THEN [st EXCEPT !.back_side = push(@, back("Sidewalk", t))]
        ELSE [st EXCEPT !.fwd_side = push(@, fwd("Sidewalk", t))]
    ELSE st

\* tags.get(k).and_then(|num| num.parse::<f64>().ok())
width_tag(t, k) == UNION {parse_f64(num) : num \in get(t, k)}

\* side.last_mut().unwrap().width = Distance::meters(x)
set_last_width(side, x) ==
    [side EXCEPT ![Len(side)] = [@ EXCEPT !.width = Distance_meters(x)]]

\* sets the width of the last lane of the forward (on_fwd) or backward side;
\* last_mut().unwrap() panics on an empty side
sidewalk_width(st, t, k, on_fwd) ==
    LET x == width_tag(t, k)
    IN IF x = {} THEN st
       ELSE IF on_fwd THEN
           IF st.fwd_side = <<>> THEN Panicked
           ELSE [st EXCEPT !.fwd_side = set_last_width(@, CHOOSE w \in x : TRUE)]
       ELSE
           IF st.back_side = <<>> THEN Panicked
           ELSE [st EXCEPT !.back_side = set_last_width(@, CHOOSE w \in x : TRUE)]

sidewalk_left_width(st, t, c) ==
    sidewalk_width(st, t, "sidewalk:left:width", c.driving_side # "Right")

sidewalk_right_width(st, t, c) ==
    sidewalk_width(st, t, "sidewalk:right:width", c.driving_side = "Right")

\* shoulders pushed without looking at the outermost lane of the side
shoulders_beside_sidewalks(st, t, c) ==
    LET no_shoulders ==
            \/ is_any(t, HIGHWAY, {"motorway", "motorway_link", "construction"})
            \/ is(t, "foot", "no")
            \/ is(t, "access", "no")
            \/ is(t, "motorroad", "yes")
    IN IF c.inferred_sidewalks \/ is(t, HIGHWAY, "living_street") THEN
           [st EXCEPT
              !.fwd_side = IF ~no_shoulders THEN push(@, fwd("Shoulder", t)) ELSE @,
              !.back_side = IF ~no_shoulders /\ ~is(t, "oneway", "yes")
                            THEN push(@, back("Shoulder", t)) ELSE @]
       ELSE st

shoulders(st, t, c) ==
    LET no_shoulders ==
            \/ is_any(t, HIGHWAY, {"motorway", "motorway_link", "construction"})
            \/ is(t, "foot", "no")
            \/ is(t, "access", "no")
            \/ is(t, "motorroad", "yes")
        need_fwd_shoulder ==
            /\ (st.fwd_side = <<>> \/ last(st.fwd_side).lt # "Sidewalk")
            /\ ~no_shoulders
        need_back_shoulder ==
            /\ (st.back_side = <<>> \/ last(st.back_side).lt # "Sidewalk")
            /\ ~no_shoulders
            /\ ~is(t, "oneway", "yes")
    IN IF c.inferred_sidewalks \/ is(t, HIGHWAY, "living_street") THEN
           [st EXCEPT
              !.fwd_side = IF need_fwd_shoulder THEN push(@, fwd("Shoulder", t)) ELSE @,
              !.back_side = IF need_back_shoulder THEN push(@, back("Shoulder", t)) ELSE @]
       ELSE st

----------------------------------------------------------------------------
(* get_lane_specs_ltr *)

Return(k, ls, fs, bs) ==
    [pc |-> "returned", kind |-> k, lanes |-> ls, fwd_side |-> fs, back_side |-> bs]

Panic == [pc |-> "panicked", kind |-> "panic", lanes |-> <<>>,
          fwd_side |-> <<>>, back_side |-> <<>>]

Assembled(k, st, c) ==
    Return(k, assemble_ltr(st.fwd_side, st.back_side, c.driving_side),
           st.fwd_side, st.back_side)

\* highway=cycleway
cycleway_road(t, c) ==
    LET fs0 == <<fwd("Biking", t)>>
        bs0 == IF is(t, "oneway", "yes") THEN <<>> ELSE <<back("Biking", t)>>
        walk == ~is(t, "foot", "no")
        fs == IF walk THEN push(fs0, fwd("Shoulder", t)) ELSE fs0
        bs == IF walk /\ bs0 # <<>> THEN push(bs0, back("Shoulder", t)) ELSE bs0
    IN Assembled("cycleway", Sides(fs, bs), c)

\* the construction return left out
construction_return_never(t) == FALSE

\* if driving_lane == LaneType::Construction { return assemble_ltr(..) }
construction_return(t) == driving_lane(t) = "Construction"

\* one step of the normal road applied to the sides built so far; a panic
\* ends the call, so no later step runs
then(v, F(_)) == let(v, LAMBDA st : IF st.ok THEN F(st) ELSE st)

\* the normal road after the construction return, step by step in source order
run_steps(s0, t, c) ==
    then(then(then(then(then(then(then(then(then(then(then(s0,
        LAMBDA st : bus_lanes_forward(st, t)),
        LAMBDA st : bus_lanes_backward(st, t)),
        LAMBDA st : cycleways(st, t, c)),
        LAMBDA st : separation_right_left(st, t)),
        LAMBDA st : separation_left_left(st, t)),
        LAMBDA st : separation_left_right(st, t)),
        LAMBDA st : parking(st, t)),
        LAMBDA st : sidewalks(st, t, c)),
        LAMBDA st : sidewalk_left_width(st, t, c)),
        LAMBDA st : sidewalk_right_width(st, t, c)),
        LAMBDA st : shoulders(st, t, c))

\* everything below "Most cases are below -- it's a normal road"
normal_road(t, c) ==
    let(initial_sides(t), LAMBDA s0 :
        IF ~s0.ok THEN Panic
        ELSE IF construction_return(t) THEN Assembled("construction", s0, c)
        ELSE let(run_steps(s0, t, c), LAMBDA s :
                 IF s.ok THEN Assembled("normal", s, c) ELSE Panic))

\* the body of get_lane_specs_ltr after the sidewalk pre-pass; t is the local copy
classic(t, c) ==
    IF is_any(t, "railway", {"light_rail", "rail"}) THEN
        Return("railway", <<fwd("LightRail", t)>>, <<>>, <<>>)
    ELSE IF is(t, HIGHWAY, "cycleway") THEN cycleway_road(t, c)
    ELSE IF is(t, HIGHWAY, "footway") /\ is_any(t, "footway", {"crossing", "sidewalk"}) THEN
        Return("crossing", <<fwd("Sidewalk", t)>>, <<>>, <<>>)
    ELSE IF is_any(t, HIGHWAY, {"footway", "path", "pedestrian", "steps", "track"}) THEN
        IF is_any(t, "bicycle", {"designated", "yes", "dismount"})
        THEN Return("pedestrian", <<fwd("SharedUse", t)>>, <<>>, <<>>)
        ELSE Return("pedestrian", <<fwd("Footway", t)>>, <<>>, <<>>)
    ELSE normal_road(t, c)

\* the pre-pass run on the caller's dictionary itself, without the clone
caller_tags_after_without_clone(caller, local) == local

\* the dictionary the caller holds once the call is over: the pre-pass wrote
\* to `local`, the clone
caller_tags_after(caller, local) == caller

\* the outcome of a call, with the caller's dictionary after it
get_lane_specs_ltr(caller, c) ==
    IF c.osm2lanes THEN
        [pc |-> "experimental", kind |-> "experimental", lanes |-> <<>>,
         fwd_side |-> <<>>, back_side |-> <<>>, tags |-> caller]
    ELSE
        let(infer_sidewalk_tags(clone(caller), c), LAMBDA local :
            let(classic(local, c), LAMBDA r :
                [pc |-> r.pc, kind |-> r.kind, lanes |-> r.lanes,
                 fwd_side |-> r.fwd_side, back_side |-> r.back_side,
                 tags |-> caller_tags_after(caller, local)]))

----------------------------------------------------------------------------
(* The inputs: families of tag dictionaries, each varying the keys that one  *)
(* part of the engine reads.                                                 *)

Unset == "(unset)"

Opt(vs) == {Unset} \cup vs

Tag(k, v) == IF v = Unset THEN EmptyTags ELSE (k :> v)

DrivingSides == {"Right", "Left"}

Config(ds, inferred) ==
    [driving_side |-> ds, inferred_sidewalks |-> inferred, osm2lanes |-> FALSE]

Configs == {Config(ds, inferred) : ds \in DrivingSides, inferred \in BOOLEAN}

\* no call of the lane engine is made
LanesUnused ==
    /\ tags = EmptyTags
    /\ cfg = Config("Right", FALSE)
    /\ pc = "unused"
    /\ lanes = <<>>
    /\ fwd_side = <<>>
    /\ back_side = <<>>
    /\ kind = "none"

\* lane counts and the kind of driving lane
CountInputs ==
    /\ cfg \in Configs
    /\ \E l \in Opt(LaneCountValues), lf \in Opt(LaneCountValues),
          lb \in Opt(LaneCountValues),
          ow \in Opt({"yes", "reversible", "no"}), j \in Opt({"roundabout"}),
          a \in Opt({"no"}), ctl \in Opt({"yes"}) :
          tags = Tag(HIGHWAY, "residential") @@ Tag("lanes", l)
                 @@ Tag("lanes:forward", lf) @@ Tag("lanes:backward", lb)
                 @@ Tag("oneway", ow) @@ Tag("junction", j) @@ Tag("access", a)
                 @@ Tag("centre_turn_lane", ctl)

\* the kind of driving lane, on roads tagged with bike lanes, parking and sidewalks
DrivingLaneInputs ==
    /\ cfg \in Configs
    /\ \E hw \in {"residential", "construction"}, a \in Opt({"no"}), b \in Opt({"yes"}),
          p \in Opt({"yes", "designated", "no"}), mvc \in Opt(ConditionalValues),
          ctl \in Opt({"yes"}), cw \in Opt({"lane"}), pk \in Opt({"parallel"}),
          sw \in Opt({"both"}), rsl \in Opt({"kerb"}) :
          tags = Tag(HIGHWAY, hw) @@ Tag("access", a) @@ Tag("bus", b) @@ Tag("psv", p)
                 @@ Tag("motor_vehicle:conditional", mvc)
                 @@ Tag("centre_turn_lane", ctl) @@ Tag("cycleway", cw)
                 @@ Tag(PARKING_BOTH, pk) @@ Tag(SIDEWALK, sw)
                 @@ Tag("cycleway:right:separation:left", rsl)

\* bus lane specifications
BusInputs ==
    /\ cfg \in {Config("Right", TRUE), Config("Left", FALSE)}
    /\ \E lf \in Opt(LaneCountNumerals), lb \in Opt({"0"}),
          ow \in Opt({"yes"}), lbw \in Opt({"1"}),
          blf \in Opt(BusSpecValues), plf \in Opt({"designated"}),
          bl \in Opt({"designated|yes"}), pl \in Opt({"designated"}),
          blb \in Opt(BusSpecValues), plb \in Opt({"designated"}) :
          tags = Tag(HIGHWAY, "primary") @@ Tag("lanes:forward", lf)
                 @@ Tag("lanes:backward", lb) @@ Tag("oneway", ow)
                 @@ Tag("lanes:both_ways", lbw)
                 @@ Tag("bus:lanes:forward", blf) @@ Tag("psv:lanes:forward", plf)
                 @@ Tag("bus:lanes", bl) @@ Tag("psv:lanes", pl)
                 @@ Tag("bus:lanes:backward", blb) @@ Tag("psv:lanes:backward", plb)

\* sidewalk widths
WidthInputs ==
    /\ cfg \in Configs
    /\ \E hw \in {"residential", "motorway"}, lf \in Opt({"0"}), lb \in Opt({"0"}),
          ow \in Opt({"yes"}), sw \in Opt({"both", "left", "none"}),
          wl \in Opt(WidthValues), wr \in Opt(WidthValues) :
          tags = Tag(HIGHWAY, hw) @@ Tag("lanes:forward", lf)
                 @@ Tag("lanes:backward", lb) @@ Tag("oneway", ow)
                 @@ Tag(SIDEWALK, sw) @@ Tag("sidewalk:left:width", wl)
                 @@ Tag("sidewalk:right:width", wr)

\* bike lanes on either side and their buffers
CycleSideInputs ==
    /\ cfg \in Configs
    /\ \E cw \in Opt({"opposite_lane"}), cr \in Opt({"track"}),
          cl \in Opt({"lane", "track", "opposite_lane"}),
          cro \in Opt({"no"}), clo \in Opt({"no"}),
          ow \in Opt({"yes"}), ctl \in Opt({"yes"}), lb \in Opt({"0"}),
          pk \in Opt({"parallel"}), sw \in Opt({"none"}),
          rsl \in Opt({"kerb"}), lsl \in Opt({"bollard"}), lsr \in Opt({"solid_line"}) :
          tags = Tag(HIGHWAY, "tertiary") @@ Tag("cycleway", cw)
                 @@ Tag("cycleway:right", cr) @@ Tag("cycleway:left", cl)
                 @@ Tag("cycleway:right:oneway", cro) @@ Tag("cycleway:left:oneway", clo)
                 @@ Tag("oneway", ow) @@ Tag("centre_turn_lane", ctl)
                 @@ Tag("lanes:backward", lb) @@ Tag(PARKING_BOTH, pk)
                 @@ Tag(SIDEWALK, sw)
                 @@ Tag("cycleway:right:separation:left", rsl)
                 @@ Tag("cycleway:left:separation:left", lsl)
                 @@ Tag("cycleway:left:separation:right", lsr)

\* bike lanes tagged for the whole road
CycleBothInputs ==
    /\ cfg \in Configs
    /\ \E cw \in Opt({"lane", "track"}), cb \in Opt({"lane"}), cr \in Opt({"lane"}),
          ob \in Opt({"no"}), ow \in Opt({"yes"}), lb \in Opt({"0"}),
          sw \in Opt({"none"}),
          rsl \in Opt({"planter", "parking_lane"}), lsl \in Opt({"guard_rail"}),
          lsr \in Opt({"dashed_line"}) :
          tags = Tag(HIGHWAY, "tertiary") @@ Tag("cycleway", cw)
                 @@ Tag("cycleway:both", cb) @@ Tag("cycleway:right", cr)
                 @@ Tag("oneway:bicycle", ob) @@ Tag("oneway", ow)
                 @@ Tag("lanes:backward", lb) @@ Tag(SIDEWALK, sw)
                 @@ Tag("cycleway:right:separation:left", rsl)
                 @@ Tag("cycleway:left:separation:left", lsl)
                 @@ Tag("cycleway:left:separation:right", lsr)

\* parking, sidewalks and shoulders
SidewalkInputs ==
    /\ cfg \in Configs
    /\ \E hw \in {"residential", "living_street", "motorway", "construction"},
          ow \in Opt({"yes", "reversible"}),
          sw \in Opt({"both", "separate", "right", "left", "none"}),
          pr \in Opt({"diagonal"}), pb \in Opt({"parallel"}),
          ft \in Opt({"no"}), mr \in Opt({"yes"}), a \in Opt({"no"}),
          lb \in Opt({"0"}), cw \in Opt({"lane"}) :
          tags = Tag(HIGHWAY, hw) @@ Tag("oneway", ow) @@ Tag(SIDEWALK, sw)
                 @@ Tag(PARKING_RIGHT, pr) @@ Tag(PARKING_BOTH, pb)
                 @@ Tag("foot", ft) @@ Tag("motorroad", mr) @@ Tag("access", a)
                 @@ Tag("lanes:backward", lb) @@ Tag("cycleway", cw)

\* what the sidewalk pre-pass reads
InferInputs ==
    /\ cfg \in Configs
    /\ \E hw \in Opt({"motorway", "motorway_link", "service", "cycleway", "pedestrian",
                      "track", "residential", "living_street", "primary"}),
          j \in Opt({"intersection", "roundabout"}), ft \in Opt({"no", "yes"}),
          ow \in Opt({"yes", "no"}), dc \in Opt({"yes"}),
          sw \in Opt({"separate", "no"}),
          sl \in Opt({"no", "separate"}), sr \in Opt({"no", "yes"}) :
          tags = Tag(HIGHWAY, hw) @@ Tag("junction", j) @@ Tag("foot", ft)
                 @@ Tag("oneway", ow) @@ Tag("dual_carriageway", dc)
                 @@ Tag(SIDEWALK, sw) @@ Tag("sidewalk:left", sl)
                 @@ Tag("sidewalk:right", sr)

\* railways, cycleways, footways and pedestrian spaces; the experimental engine
SpecialInputs ==
    /\ cfg \in Configs \cup {[c EXCEPT !.osm2lanes = TRUE] : c \in Configs}
    /\ \E rw \in Opt({"rail", "light_rail", "tram"}),
          hw \in {"cycleway", "footway", "path", "pedestrian", "steps", "track",
                  "residential"},
          fw \in Opt({"crossing", "sidewalk"}), b \in Opt({"yes", "no"}),
          ft \in Opt({"no"}), ow \in Opt({"yes"}) :
          tags = Tag("railway", rw) @@ Tag(HIGHWAY, hw) @@ Tag("footway", fw)
                 @@ Tag("bicycle", b) @@ Tag("foot", ft) @@ Tag("oneway", ow)

----------------------------------------------------------------------------
(* pathfinding.rs: simple_path.                                              *)

\* self.roads holds at most MaxRoads roads
MaxRoads == 2

\* osm::NodeID of the intersections
NodeIDs == {1, 2, 3}

\* Road::length() in whole metres, by osm_way_id: the first way is a detour
length(way) == IF way = 1 THEN 3 ELSE 1

Lane(lt, dir) == [lt |-> lt, dir |-> dir]

\* lane_specs_ltr of a road: one-way, two-way, usable backwards only (the
\* forward lane is a sidewalk)
LaneSpecsOfRoads ==
    { << Lane("Driving", "Fwd") >>,
      << Lane("Driving", "Back"), Lane("Driving", "Fwd") >>,
      << Lane("Bus", "Back"), Lane("Sidewalk", "Fwd") >> }

LaneTypeLists == { << "Driving", "Bus" >> }

\* self.roads is a BTreeMap keyed by OriginalRoad: the sequence is its
\* iteration order and the position of a road is its osm_way_id
OriginalRoad(way, i1, i2) == [osm_way_id |-> way, i1 |-> i1, i2 |-> i2]

Roads(n, e, ls) ==
    [w \in 1..n |-> [id |-> OriginalRoad(w, e[w][1], e[w][2]),
                      lane_specs_ltr |-> ls[w],
                      length |-> length(w)]]

\* lane_types.contains(&lane.lt) for some lane of the road with direction dir
has_lane(r, lane_types, dir) ==
    \E i \in 1..Len(r.lane_specs_ltr) :
        /\ \E j \in 1..Len(lane_types) : lane_types[j] = r.lane_specs_ltr[i].lt
        /\ IF dir = "Fwd" THEN r.lane_specs_ltr[i].dir = "Fwd"
                          ELSE r.lane_specs_ltr[i].dir # "Fwd"

\* DiGraphMap: a function from the edges (a, b) to their weight
DiGraphMap_new == [e \in {} |-> 0]

\* DiGraphMap::add_edge: an edge that is already there has its weight replaced
add_edge(graph, a, b, weight) ==
    [e \in DOMAIN graph \cup {<<a, b>>} |->
        IF e = <<a, b>> THEN weight ELSE graph[e]]

fwd_edge(id) == <<id.i1, id.i2>>

back_edge_unreversed(id) == <<id.i1, id.i2>>

back_edge(id) == <<id.i2, id.i1>>

\* one iteration of the loop over self.roads
add_road(graph, r, lane_types) ==
    let(IF has_lane(r, lane_types, "Fwd")
        THEN add_edge(graph, fwd_edge(r.id)[1], fwd_edge(r.id)[2], <<r.id, "Fwd">>)
        ELSE graph,
        LAMBDA g :
          IF has_lane(r, lane_types, "Back")
          THEN add_edge(g, back_edge(r.id)[1], back_edge(r.id)[2], <<r.id, "Back">>)
          ELSE g)

RECURSIVE build_graph(_, _, _)
build_graph(roads, n, lane_types) ==
    IF n = 0 THEN DiGraphMap_new
    ELSE add_road(build_graph(roads, n - 1, lane_types), roads[n], lane_types)

\* the node sequences without repetition from `from` to `to` along edges
NodePaths(graph, from, to) ==
    { p \in UNION {[1..n -> NodeIDs] : n \in 1..Cardinality(NodeIDs)} :
        /\ p[1] = from
        /\ p[Len(p)] = to
        /\ \A i, j \in 1..Len(p) : p[i] = p[j] => i = j
        /\ \A i \in 1..(Len(p) - 1) : <<p[i], p[i + 1]>> \in DOMAIN graph }

RECURSIVE Sum(_, _)
Sum(f, n) == IF n = 0 THEN 0 ELSE f[n] + Sum(f, n - 1)

\* the edge cost closure: |(_, _, (r, _))| self.roads[r].length()
path_cost(graph, roads, p) ==
    Sum([i \in 1..(Len(p) - 1) |-> roads[graph[<<p[i], p[i + 1]>>][1].osm_way_id].length],
        Len(p) - 1)

\* petgraph::algo::astar with a zero estimate: None when `to` is not reached,
\* else a node path of least cost (any of them when several tie)
astar(graph, roads, from, to) ==
    let(NodePaths(graph, from, to), LAMBDA ps :
        { p \in ps : \A q \in ps : path_cost(graph, roads, p) <= path_cost(graph, roads, q) })

None == [some |-> FALSE, path |-> <<>>]

Some(x) == [some |-> TRUE, path |-> x]

\* path.windows(2).map(|pair| *graph.edge_weight(pair[0], pair[1]).unwrap())
windows_edge_weight(graph, p) ==
    [i \in 1..(Len(p) - 1) |-> graph[<<p[i], p[i + 1]>>]]

\* the results simple_path can return
simple_path(roads, from, to, lane_types) ==
    let(build_graph(roads, Len(roads), lane_types), LAMBDA graph :
        let(astar(graph, roads, from, to), LAMBDA found :
            IF found = {} THEN {None}
            ELSE {Some(windows_edge_weight(graph, p)) : p \in found}))

SearchUnused ==
    search = [pc |-> "unused", roads |-> <<>>, from |-> 1, to |-> 1,
              lane_types |-> <<>>, result |-> None]

----------------------------------------------------------------------------
(* transform/mod.rs: the lists of transformations and their application.    *)
(* The transformations themselves live in other modules; a run is observed   *)
(* through the sequence of functions it calls on the StreetNetwork.          *)

\* arbitrary transformation lists handed to apply_transformations have at
\* most MaxSteps steps
MaxSteps == 2

\* enum Transformation; FindShortRoads carries consolidate_all_intersections
Transformations ==
    {"ClassifyIntersections", "TrimDeadendCycleways", "SnapCycleways",
     "RemoveDisconnectedRoads", "FindShortRoads{false}", "FindShortRoads{true}",
     "MergeShortRoads", "CollapseDegenerateIntersections", "CollapseSausageLinks",
     "ShrinkOverlappingRoads", "MergeDualCarriageways"}

abstreet ==
    << "ClassifyIntersections",
       "TrimDeadendCycleways",
       "TrimDeadendCycleways",
       "RemoveDisconnectedRoads",
       "CollapseSausageLinks",
       "FindShortRoads{false}",
       "MergeShortRoads",
       "CollapseDegenerateIntersections",
       "ShrinkOverlappingRoads" >>

standard_for_clipped_areas ==
    << "ClassifyIntersections",
       "TrimDeadendCycleways",
       "CollapseSausageLinks",
       "FindShortRoads{false}",
       "MergeShortRoads",
       "CollapseDegenerateIntersections",
       "ShrinkOverlappingRoads" >>

name(t) ==
    CASE t = "ClassifyIntersections" -> "classify intersections"
      [] t = "TrimDeadendCycleways" -> "trim dead-end cycleways"
      [] t = "SnapCycleways" -> "snap separate cycleways"
      [] t = "RemoveDisconnectedRoads" -> "remove disconnected roads"
      [] t \in {"FindShortRoads{false}", "FindShortRoads{true}"} -> "find short roads"
      [] t = "MergeShortRoads" -> "merge short roads"
      [] t = "CollapseDegenerateIntersections" -> "collapse degenerate intersections"
      [] t = "CollapseSausageLinks" -> "collapse sausage links"
      [] t = "ShrinkOverlappingRoads" -> "shrink overlapping roads"
      [] t = "MergeDualCarriageways" -> "merge dual carriageways"

\* the function Transformation::apply calls on the StreetNetwork
apply(t) ==
    CASE t = "ClassifyIntersections" -> "classify_intersections::classify_intersections"
      [] t = "TrimDeadendCycleways" -> "collapse_intersections::trim_deadends"
      [] t = "SnapCycleways" -> "separate_cycletracks::snap_cycleways"
      [] t = "RemoveDisconnectedRoads" -> "remove_disconnected::remove_disconnected_roads"
      [] t = "FindShortRoads{false}" -> "find_short_roads::find_short_roads(false)"
      [] t = "FindShortRoads{true}" -> "find_short_roads::find_short_roads(true)"
      [] t = "MergeShortRoads" -> "merge_short_road::merge_all_junctions"
      [] t = "CollapseDegenerateIntersections" -> "collapse_intersections::collapse"
      [] t = "CollapseSausageLinks" -> "sausage_links::collapse_sausage_links"
      [] t = "ShrinkOverlappingRoads" -> "shrink_roads::shrink"
      [] t = "MergeDualCarriageways" -> "dual_carriageways::merge"

StreetsUnused ==
    streets = [pc |-> "unused", input |-> <<>>, todo |-> <<>>, calls |-> <<>>,
               timer |-> <<>>]

ShortLists == UNION {[1..n -> Transformations] : n \in 0..MaxSteps}

TransformationLists == {abstreet, standard_for_clipped_areas} \cup ShortLists

TransformInit ==
    /\ LanesUnused
    /\ SearchUnused
    /\ \E l \in TransformationLists :
          streets = [pc |-> "idle", input |-> l, todo |-> l, calls |-> <<>>,
                     timer |-> <<>>]

\* apply_transformations is entered: timer.start("simplify StreetNetwork")
ApplyTransformations ==
    /\ streets.pc = "idle"
    /\ streets' = [streets EXCEPT !.pc = "loop",
                                  !.timer = Append(@, "simplify StreetNetwork")]
    /\ UNCHANGED <<tags, cfg, pc, lanes, fwd_side, back_side, kind, search>>

\* one iteration of the for loop: transformation.apply(self, timer), which
\* opens the timer span name(), calls the function and closes the span
Apply ==
    /\ streets.pc = "loop"
    /\ streets.todo # <<>>
    /\ \E transformation \in {Head(streets.todo)} :
       \E opened \in {Append(streets.timer, name(transformation))} :
          streets' = [streets EXCEPT
                        !.todo = Tail(@),
                        !.calls = Append(@, apply(transformation)),
                        !.timer = SubSeq(opened, 1, Len(opened) - 1)]
    /\ UNCHANGED <<tags, cfg, pc, lanes, fwd_side, back_side, kind, search>>

\* the loop is over: timer.stop("simplify StreetNetwork")
ApplyTransformationsReturn ==
    /\ streets.pc = "loop"
    /\ streets.todo = <<>>
    /\ streets' = [streets EXCEPT !.pc = "done",
                                  !.timer = SubSeq(@, 1, Len(@) - 1)]
    /\ UNCHANGED <<tags, cfg, pc, lanes, fwd_side, back_side, kind, search>>

TransformNext == ApplyTransformations \/ Apply \/ ApplyTransformationsReturn

TransformSpec == TransformInit /\ [][TransformNext]_vars

PathInit ==
    /\ LanesUnused
    /\ StreetsUnused
    /\ \E n \in 0..MaxRoads :
       \E e \in [1..n -> NodeIDs \X NodeIDs],
          ls \in [1..n -> LaneSpecsOfRoads],
          from \in NodeIDs, to \in NodeIDs, lane_types \in LaneTypeLists :
          search = [pc |-> "idle", roads |-> Roads(n, e, ls), from |-> from,
                    to |-> to, lane_types |-> lane_types, result |-> None]

\* a call self.simple_path(from, to, lane_types)
SimplePath ==
    /\ search.pc = "idle"
    /\ \E result \in simple_path(search.roads, search.from, search.to, search.lane_types) :
          search' = [search EXCEPT !.pc = "returned", !.result = result]
    /\ UNCHANGED <<tags, cfg, pc, lanes, fwd_side, back_side, kind, streets>>

PathNext == SimplePath

PathSpec == PathInit /\ [][PathNext]_vars

----------------------------------------------------------------------------
(* The state machine. *)

Init ==
    /\ pc = "idle"
    /\ lanes = <<>>
    /\ fwd_side = <<>>
    /\ back_side = <<>>
    /\ kind = "none"
    /\ StreetsUnused
    /\ SearchUnused
    /\ \/ CountInputs
       \/ DrivingLaneInputs
       \/ BusInputs
       \/ WidthInputs
       \/ CycleSideInputs
       \/ CycleBothInputs
       \/ SidewalkInputs
       \/ InferInputs
       \/ SpecialInputs

\* a call get_lane_specs_ltr(&tags, &cfg)
GetLaneSpecsLtr ==
    /\ pc = "idle"
    /\ \E r \in {get_lane_specs_ltr(tags, cfg)} :
          /\ pc' = r.pc
          /\ kind' = r.kind
          /\ lanes' = r.lanes
          /\ fwd_side' = r.fwd_side
          /\ back_side' = r.back_side
          /\ tags' = r.tags
    /\ UNCHANGED <<cfg, streets, search>>

\* a call infer_sidewalk_tags(&mut tags, &cfg)
InferSidewalkTags ==
    /\ pc = "idle"
    /\ tags' = infer_sidewalk_tags(tags, cfg)
    /\ pc' = "inferred"
    /\ UNCHANGED <<cfg, lanes, fwd_side, back_side, kind, streets, search>>

Next == GetLaneSpecsLtr \/ InferSidewalkTags

Spec == Init /\ [][Next]_vars

----------------------------------------------------------------------------
(* Properties. *)

Returned == pc = "returned"

LaneIndexes(lt) == {i \in 1..Len(lanes) : lanes[i].lt = lt}

HasLane(lt) == LaneIndexes(lt) # {}

IsBuffer(lane) == lane.lt \in BufferLaneTypes

\* C1: with the experimental engine off, every call returns, and returns at
\* least one lane
C1_Total ==
    (pc \in {"returned", "panicked"}) => (pc = "returned" /\ Len(lanes) >= 1)

\* C2: every returned lane has a width > 0, whatever numeric value the
\* sidewalk:left:width and sidewalk:right:width tags hold
C2_PositiveWidths ==
    Returned => \A i \in 1..Len(lanes) : lanes[i].width > 0

\* C3: if the output holds a SharedLeftTurn lane it holds exactly one, and that
\* lane is the first lane of the forward side handed to assemble_ltr
C3_SharedLeftTurnAtCenterline ==
    (Returned /\ HasLane("SharedLeftTurn")) =>
        /\ Cardinality(LaneIndexes("SharedLeftTurn")) = 1
        /\ fwd_side # <<>>
        /\ fwd_side[1].lt = "SharedLeftTurn"

\* C4: no Buffer lane is the first or the last lane of the returned sequence
C4_NoOutermostBuffer ==
    (Returned /\ lanes # <<>>) =>
        (~IsBuffer(lanes[1]) /\ ~IsBuffer(lanes[Len(lanes)]))

\* C5: every Buffer lane of the returned sequence has a Biking lane as its
\* immediate left or right neighbour
C5_BufferAdjacency ==
    Returned =>
        \A i \in 1..Len(lanes) :
            IsBuffer(lanes[i]) =>
                \/ (i > 1 /\ lanes[i - 1].lt = "Biking")
                \/ (i < Len(lanes) /\ lanes[i + 1].lt = "Biking")

\* C5 witness: a returned road with two buffers and a two-way cycle track on
\* the forward side
C5_Witness ==
    /\ Returned
    /\ Cardinality({i \in 1..Len(fwd_side) : IsBuffer(fwd_side[i])}) = 2
    /\ \E i \in 1..Len(fwd_side) :
           fwd_side[i].lt = "Biking" /\ fwd_side[i].dir = "Back"
    /\ \E i \in 1..Len(back_side) : IsBuffer(back_side[i])

\* C6: a normal road whose driving-lane type is not Construction returns at
\* least one Driving or Bus lane
C6_MotorVehicleLane ==
    (Returned /\ kind = "normal") => (HasLane("Driving") \/ HasLane("Bus"))

\* the call went through the normal road (none of the early returns)
NormalRoad == kind \in {"normal", "construction"}

\* C7: when the driving-lane type is Construction the returned sequence holds
\* only Construction lanes and at most one SharedLeftTurn lane
C7_ConstructionShortCircuit ==
    (Returned /\ NormalRoad /\ driving_lane(tags) = "Construction") =>
        /\ \A i \in 1..Len(lanes) : lanes[i].lt \in {"Construction", "SharedLeftTurn"}
        /\ Cardinality(LaneIndexes("SharedLeftTurn")) <= 1

\* C7 witness: a returned Construction road whose tags ask for a bike lane, for
\* parking and for sidewalks, with sidewalk inference on
C7_Witness ==
    /\ Returned /\ NormalRoad /\ driving_lane(tags) = "Construction"
    /\ cfg.inferred_sidewalks
    /\ is(tags, "cycleway", "lane")
    /\ is(tags, PARKING_BOTH, "parallel")
    /\ is(tags, SIDEWALK, "both")
    /\ HasLane("Construction")

\* the keys that name one side of the road
SidedKeys ==
    {"cycleway:left", "cycleway:right", "cycleway:left:oneway", "cycleway:right:oneway",
     "cycleway:right:separation:left", "cycleway:left:separation:left",
     "cycleway:left:separation:right", PARKING_LEFT, PARKING_RIGHT,
     "sidewalk:left", "sidewalk:right", "sidewalk:left:width", "sidewalk:right:width"}

\* no key names a side and sidewalk is not valued left or right
SymmetricTags(t) ==
    /\ (DOMAIN t) \cap SidedKeys = {}
    /\ ~is_any(t, SIDEWALK, {"left", "right"})

OtherSide(c) ==
    [c EXCEPT !.driving_side = IF @ = "Right" THEN "Left" ELSE "Right"]

TypesAndDirections(ls) == [i \in 1..Len(ls) |-> <<ls[i].lt, ls[i].dir>>]

\* the call with the other driving side returns too, and returns the lane
\* types and directions of `lanes` in the opposite order
ReversedOnOtherSide ==
    \E o \in {get_lane_specs_ltr(tags, OtherSide(cfg))} :
        /\ o.pc = "returned"
        /\ TypesAndDirections(o.lanes) = Reverse(TypesAndDirections(lanes))

\* C8 as stated: for left/right symmetric tags the sequence returned with the
\* other driving side is the reverse of the one returned
C8_DrivingSideSymmetry ==
    (Returned /\ SymmetricTags(tags)) => ReversedOnOtherSide

\* C8 amended: the same, for symmetric tags without cycleway=opposite_lane
C8_DrivingSideSymmetryAmended ==
    (Returned /\ SymmetricTags(tags) /\ ~is(tags, "cycleway", "opposite_lane"))
        => ReversedOnOtherSide

\* C8 witness: a returned one-way road with symmetric tags whose sidewalk the
\* pre-pass put on the driving side only, with lanes on both sides
C8_Witness ==
    /\ Returned /\ kind = "normal"
    /\ SymmetricTags(tags) /\ ~is(tags, "cycleway", "opposite_lane")
    /\ cfg.inferred_sidewalks /\ ~contains_key(tags, SIDEWALK)
    /\ is(tags, "oneway", "yes")
    /\ Cardinality(LaneIndexes("Sidewalk")) = 1
    /\ Len(fwd_side) >= 2 /\ Len(back_side) >= 1
    /\ TypesAndDirections(lanes) # Reverse(TypesAndDirections(lanes))

\* the four-step first-match procedure of the sidewalk pre-pass
ReferenceSidewalk(t, c) ==
    IF contains_key(t, "sidewalk:left") \/ contains_key(t, "sidewalk:right") THEN
        IF is(t, "sidewalk:right", "no")
        THEN (IF is(t, "sidewalk:left", "no") THEN "none" ELSE "left")
        ELSE (IF is(t, "sidewalk:left", "no") THEN "right" ELSE "both")
    ELSE IF \/ is_any(t, "highway", {"motorway", "motorway_link", "service", "cycleway",
                                     "pedestrian", "track"})
            \/ is_any(t, "junction", {"intersection", "roundabout"})
            \/ is(t, "foot", "no")
    THEN "none"
    ELSE IF is(t, "oneway", "yes") THEN
        IF is_any(t, "highway", {"residential", "living_street"})
           /\ ~is(t, "dual_carriageway", "yes")
        THEN "both"
        ELSE (IF c.driving_side = "Right" THEN "right" ELSE "left")
    ELSE "both"

ReferenceInfer(t, c) ==
    IF contains_key(t, "sidewalk") \/ ~c.inferred_sidewalks THEN t
    ELSE [k \in (DOMAIN t) \cup {"sidewalk"} |->
            IF k = "sidewalk" THEN ReferenceSidewalk(t, c) ELSE t[k]]

\* C9: infer_sidewalk_tags leaves the dictionary as the reference procedure
\* does: unchanged under the guard, otherwise with the one key sidewalk added
C9_InferMatchesReference ==
    [][pc' = "inferred" => tags' = ReferenceInfer(tags, cfg)]_vars

\* C9 witness: the pre-pass has run on a one-way residential road and the
\* override to both has been applied
C9_Witness ==
    /\ pc = "inferred"
    /\ cfg.inferred_sidewalks
    /\ is(tags, "oneway", "yes")
    /\ is(tags, HIGHWAY, "residential")
    /\ ~contains_key(tags, "sidewalk:left") /\ ~contains_key(tags, "sidewalk:right")
    /\ ~contains_key(tags, "junction") /\ ~contains_key(tags, "foot")
    /\ ~contains_key(tags, "dual_carriageway")
    /\ is(tags, SIDEWALK, "both")

\* C10: a call of get_lane_specs_ltr, whether it returns or panics, leaves the
\* caller's tag dictionary as it was
C10_CallerTagsUnchanged ==
    [][pc' \in {"returned", "panicked"} => tags' = tags]_vars

\* C10 witness: a call returned Sidewalk lanes that come from the synthetic
\* sidewalk tag, and the caller's dictionary holds no sidewalk key
C10_Witness ==
    /\ Returned /\ kind = "normal"
    /\ cfg.inferred_sidewalks
    /\ ~contains_key(tags, SIDEWALK)
    /\ Cardinality(LaneIndexes("Sidewalk")) = 2

\* the tags the lane counts and the driving-lane type are read from
CountKeys ==
    {HIGHWAY, "lanes", "lanes:forward", "lanes:backward", "oneway", "junction",
     "access", "centre_turn_lane"}

\* the stated formulas, over the integers
RefNumFwd(t) ==
    LET lf == lanes_tag(t, "lanes:forward")
        l == lanes_tag(t, "lanes")
    IN IF lf # {} THEN CHOOSE n \in lf : TRUE
       ELSE IF l # {} THEN
           (IF oneway(t) THEN CHOOSE n \in l : TRUE
            ELSE CHOOSE half \in 0..MaxLanes + 1 :
                    \E n \in l : 2 * half >= n /\ 2 * (half - 1) < n)
       ELSE 1

RefNumBack(t) ==
    LET lb == lanes_tag(t, "lanes:backward")
        l == lanes_tag(t, "lanes")
    IN IF lb # {} THEN CHOOSE n \in lb : TRUE
       ELSE IF l # {} THEN
           LET base == (CHOOSE n \in l : TRUE) - RefNumFwd(t)
           IN IF oneway(t) THEN base
              ELSE IF base >= 1 THEN base ELSE 1
       ELSE IF oneway(t) THEN 0
       ELSE 1

DrivingLanes(side, dir, t) ==
    Cardinality({i \in 1..Len(side) :
                    side[i].lt = driving_lane(t) /\ side[i].dir = dir})

\* C13: a call on a normal road tagged with lane counts returns, and its
\* forward side holds exactly RefNumFwd and its backward side exactly
\* RefNumBack lanes of the driving-lane type
C13_DrivingLaneCounts ==
    [][(/\ pc = "idle"
        /\ pc' \in {"returned", "panicked"}
        /\ DOMAIN tags \subseteq CountKeys
        /\ is(tags, HIGHWAY, "residential"))
       => (/\ pc' = "returned"
           /\ DrivingLanes(fwd_side', "Fwd", tags) = RefNumFwd(tags)
           /\ DrivingLanes(back_side', "Back", tags) = RefNumBack(tags))]_vars

Walkways(side) == {i \in 1..Len(side) : side[i].lt \in {"Sidewalk", "Shoulder"}}

\* C14: on a normal road each side holds at most one Sidewalk or Shoulder
\* lane, as its last lane, and in the assembled sequence such lanes are only
\* the first or the last lane
C14_WalkwaysOutermost ==
    (Returned /\ NormalRoad) =>
        /\ Walkways(fwd_side) \subseteq {Len(fwd_side)}
        /\ Walkways(back_side) \subseteq {Len(back_side)}
        /\ Walkways(lanes) \subseteq {1, Len(lanes)}

\* C14 witness: a normal road with lanes inside a Sidewalk on one side and
\* inside a Shoulder on the other
C14_Witness ==
    /\ Returned /\ kind = "normal"
    /\ Len(fwd_side) >= 2 /\ Len(back_side) >= 2
    /\ {last(fwd_side).lt, last(back_side).lt} = {"Sidewalk", "Shoulder"}

----------------------------------------------------------------------------
(* Properties of transform/mod.rs. *)

Without(s, x) == SelectSeq(s, LAMBDA e : e # x)

\* C11: standard_for_clipped_areas is abstreet with the RemoveDisconnectedRoads
\* step left out and every other step kept, in order and as many times; a run
\* of apply_transformations on it makes the calls a run on abstreet makes,
\* except remove_disconnected_roads
C11_ClippedIsAbstreetWithoutRemoval ==
    LET expected == Without(abstreet, "RemoveDisconnectedRoads")
    IN /\ standard_for_clipped_areas = expected
       /\ (streets.pc = "done" /\ streets.input = standard_for_clipped_areas) =>
              streets.calls = [i \in 1..Len(expected) |-> apply(expected[i])]

----------------------------------------------------------------------------
(* Properties of pathfinding.rs. *)

RoadOf(id) == search.roads[id.osm_way_id]

\* a step (road, Fwd) goes from i1 to i2, a step (road, Back) from i2 to i1
StepStart(step) == IF step[2] = "Fwd" THEN step[1].i1 ELSE step[1].i2

StepEnd(step) == IF step[2] = "Fwd" THEN step[1].i2 ELSE step[1].i1

\* the road of the step is in the network and has a lane whose type is in
\* lane_types and whose direction is the step's
Usable(step) ==
    /\ step[1].osm_way_id \in 1..Len(search.roads)
    /\ RoadOf(step[1]).id = step[1]
    /\ \E i \in 1..Len(RoadOf(step[1]).lane_specs_ltr) :
          /\ RoadOf(step[1]).lane_specs_ltr[i].dir = step[2]
          /\ \E j \in 1..Len(search.lane_types) :
                search.lane_types[j] = RoadOf(step[1]).lane_specs_ltr[i].lt

IsChain(path) ==
    /\ \A i \in 1..Len(path) : Usable(path[i])
    /\ IF path = <<>> THEN search.from = search.to
       ELSE /\ StepStart(path[1]) = search.from
            /\ StepEnd(path[Len(path)]) = search.to
            /\ \A i \in 1..(Len(path) - 1) : StepEnd(path[i]) = StepStart(path[i + 1])

AllSteps ==
    {<<search.roads[w].id, dir>> : w \in 1..Len(search.roads), dir \in {"Fwd", "Back"}}

\* the intersections one usable step away from those of S, and S
Successors(S) ==
    S \cup {StepEnd(step) : step \in {st \in AllSteps : Usable(st) /\ StepStart(st) \in S}}

RECURSIVE ReachableIn(_, _)
ReachableIn(S, n) == IF n = 0 THEN S ELSE ReachableIn(Successors(S), n - 1)

ChainExists == search.to \in ReachableIn({search.from}, Cardinality(NodeIDs))

\* C12: a returned path is a chain of usable steps from `from` to `to`, and
\* None is returned exactly when no such chain exists
C12_SimplePathIsChain ==
    search.pc = "returned" =>
        IF search.result.some THEN IsChain(search.result.path)
                              ELSE ~ChainExists

\* C12 witness: a path of at least one step was returned whose first step
\* crosses between two intersections that two usable roads join
C12_Witness ==
    /\ search.pc = "returned"
    /\ search.result.some
    /\ search.result.path # <<>>
    /\ \E st \in AllSteps :
          /\ Usable(st)
          /\ st[1] # search.result.path[1][1]
          /\ StepStart(st) = StepStart(search.result.path[1])
          /\ StepEnd(st) = StepEnd(search.result.path[1])

\* C12 witness for None: there are usable roads, and none leads to `to`
C12_WitnessNone ==
    /\ search.pc = "returned"
    /\ ~search.result.some
    /\ \E st \in AllSteps : Usable(st) /\ StepStart(st) = search.from

====
